---- MODULE Spec2Model ----
(***************************************************************************)
(* Points ledger, redemption and receipt workflow of the stash backend.    *)
(*                                                                         *)
(* The document store (Firestore) is the shared state: the users           *)
(* collection (field points), point_transactions, redemptions, receipts.   *)
(* Every tool function is split at its storage calls: one action per       *)
(* storage call, together with the local computation that follows it up    *)
(* to the next storage call or the return.                                 *)
(***************************************************************************)
EXTENDS Integers, Sequences, FiniteSets, TLC

(* ------------------------------ bounds -------------------------------- *)

\* Total number of top-level calls started in one behaviour.
MaxCalls == 4
\* Receipts stored at most.
MaxReceipts == 2
\* WalletAgent.check_balance reads the 5 latest transactions.
RecentLimit == 5

\* Document ids of the users collection that the calls use.
UserIds == {"u1", "u2"}

\* The users that the two interleaved call slots work on: a race needs both
\* calls on one document.
ConcurrentUserIds == {"u1"}

\* Call slots: slot 1 alone is the sequential server, both are two requests
\* served at the same time (two workers or two instances over one store).
Callers == {1, 2}

\* points arguments of award_points_to_user and spend_points.
AwardPoints == {25, 300}
SpendPoints == {25, 300}

\* reward_id arguments of redeem_reward / process_redemption.
\* limit arguments of get_transaction_history; 20 is its default.
HistoryLimits == {1, 2, 20}

\* Values of the int parameter points that the tools accept unchecked.
SignedPoints == {0 - 25, 0, 25}

RewardInputs == {"premium_insights", "discount_5", "no_such_reward"}

(* ------------------------------ state --------------------------------- *)

VARIABLES
    users,               \* users collection: [exists, points] per document id
    point_transactions,  \* point_transactions collection, in creation order
    redemptions,         \* redemptions collection, in creation order
    receipts,            \* receipts collection, in creation order
    pc,                  \* per call slot: the storage call it is about to make
    frame,               \* per call slot: arguments and locals of the call
    result,              \* per call slot: what the last call returned
    response,            \* per call slot: HTTP response of POST /wallet/redeem
    pre,                 \* per call slot: the store when the call started
    ncalls,              \* number of calls started so far
    held                 \* per call slot: the balances its user's account has
                         \* held since the slot's increment or decrement

vars == <<users, point_transactions, redemptions, receipts, pc, frame, result,
          response, pre, ncalls, held>>

store == <<users, point_transactions, redemptions, receipts>>

(* ------------------------- redemption catalog -------------------------- *)

get_redemption_options ==
    << [id |-> "gift_card_10", name |-> "$10 Gift Card", cost |-> 1000,
        category |-> "gift_cards", available |-> TRUE],
       [id |-> "gift_card_25", name |-> "$25 Gift Card", cost |-> 2500,
        category |-> "gift_cards", available |-> TRUE],
       [id |-> "discount_5", name |-> "5% Cashback Boost", cost |-> 500,
        category |-> "boosts", available |-> TRUE],
       [id |-> "premium_insights", name |-> "Premium Analytics Report",
        cost |-> 300, category |-> "services", available |-> TRUE] >>

FindRewardLastOption(reward_id) ==
    Len(get_redemption_options)

\* The for-loop of redeem_reward / process_redemption: index of the first
\* option whose id is reward_id, 0 when the loop ends with reward = None.
FindReward(reward_id) ==
    LET hits == {i \in 1..Len(get_redemption_options) :
                    get_redemption_options[i].id = reward_id}
    IN  IF hits = {} THEN 0
        ELSE CHOOSE i \in hits : \A j \in hits : i <= j

(* --------------------------- store primitives -------------------------- *)

NoDocument == [exists |-> FALSE, points |-> 0]

\* user_data.get("points", 0) of a snapshot (0 when the document is missing
\* is what every caller substitutes).
PointsOf(docs, user_id) ==
    IF docs[user_id].exists THEN docs[user_id].points ELSE 0

\* user_ref.update({"points": firestore.Increment(n)}): one atomic
\* server-side addition (only called on an existing document, see AwardUpdate).
Increment(docs, user_id, n) ==
    [docs EXCEPT ![user_id] = [exists |-> TRUE, points |-> @.points + n]]

SetNewUserResetsAll(docs, user_id) ==
    [u \in DOMAIN docs |-> [exists |-> TRUE, points |-> 0]]

\* A creation that would store a starting balance other than the 0 it
\* reports.
SetNewUserWithWelcomePoints(docs, user_id) ==
    [docs EXCEPT ![user_id] = [exists |-> TRUE, points |-> 100]]

\* user_ref.set({"points": 0, ...}): writes the whole document.
SetNewUser(docs, user_id) ==
    [docs EXCEPT ![user_id] = [exists |-> TRUE, points |-> 0]]

SpentEntryUnsigned(user_id, points, reason) ==
    [userId |-> user_id, points |-> points, reason |-> reason,
     type |-> "spent"]

EarnedEntry(user_id, points, reason) ==
    [userId |-> user_id, points |-> points, reason |-> reason,
     type |-> "earned"]

SpentEntry(user_id, points, reason) ==
    [userId |-> user_id, points |-> 0 - points, reason |-> reason,
     type |-> "spent"]

RedemptionRecord(user_id, reward) ==
    [userId |-> user_id, rewardId |-> reward.id, rewardName |-> reward.name,
     pointsCost |-> reward.cost, status |-> "pending_fulfillment"]

(* ------------------------------- strings ------------------------------- *)

\* A Python str is a sequence of one-character strings.
Digits == <<"0", "1", "2", "3", "4", "5", "6", "7", "8", "9">>

UpperCase == <<"A", "B", "C", "D", "E", "F", "G", "H", "I", "J", "K", "L", "M",
               "N", "O", "P", "Q", "R", "S", "T", "U", "V", "W", "X", "Y", "Z">>

LowerCase == <<"a", "b", "c", "d", "e", "f", "g", "h", "i", "j", "k", "l", "m",
               "n", "o", "p", "q", "r", "s", "t", "u", "v", "w", "x", "y", "z">>

IsDigit(ch) == \E i \in DOMAIN Digits : Digits[i] = ch

DigitValue(ch) == (CHOOSE i \in DOMAIN Digits : Digits[i] = ch) - 1

\* str.lower()
Lower(str) ==
    [i \in DOMAIN str |->
        IF \E k \in DOMAIN UpperCase : UpperCase[k] = str[i]
        THEN LowerCase[CHOOSE k \in DOMAIN UpperCase : UpperCase[k] = str[i]]
        ELSE str[i]]

\* sub in str
Contains(str, sub) ==
    \E i \in 0..(Len(str) - Len(sub)) :
        \A k \in DOMAIN sub : str[i + k] = sub[k]

\* str.replace(ch, "")
Remove(str, ch) == SelectSeq(str, LAMBDA x : x # ch)

RECURSIVE DecimalValue(_)
\* Value of a string of digits.
DecimalValue(str) ==
    IF str = <<>> THEN 0
    ELSE 10 * DecimalValue(SubSeq(str, 1, Len(str) - 1))
         + DigitValue(str[Len(str)])

RECURSIVE PowerOfTen(_)
PowerOfTen(k) == IF k = 0 THEN 1 ELSE 10 * PowerOfTen(k - 1)

RECURSIVE Strip(_)
\* Leading and trailing blanks removed, as float() does.
Strip(str) ==
    IF str # <<>> /\ Head(str) = " " THEN Strip(Tail(str))
    ELSE IF str # <<>> /\ str[Len(str)] = " "
         THEN Strip(SubSeq(str, 1, Len(str) - 1))
         ELSE str

\* float(str) for plain decimal notation: blanks around, an optional sign,
\* digits with at most one point and at least one digit.  ok = FALSE is
\* ValueError.  The value is num / den.  (Exponents, inf, nan and
\* underscores are not in the inputs used here.)
ParseFloat(str) ==
    LET t == Strip(str)
        signed == t # <<>> /\ Head(t) \in {"+", "-"}
        body == IF signed THEN Tail(t) ELSE t
        points == {i \in DOMAIN body : body[i] = "."}
        cut == IF points = {} THEN Len(body) + 1
               ELSE CHOOSE i \in points : \A j \in points : i <= j
        whole == SubSeq(body, 1, cut - 1)
        frac == SubSeq(body, cut + 1, Len(body))
        ok == /\ Cardinality(points) <= 1
              /\ \A i \in DOMAIN whole : IsDigit(whole[i])
              /\ \A i \in DOMAIN frac : IsDigit(frac[i])
              /\ Len(whole) + Len(frac) > 0
        magnitude == DecimalValue(whole) * PowerOfTen(Len(frac))
                        + DecimalValue(frac)
    IN  IF ok
        THEN [ok |-> TRUE,
              num |-> IF signed /\ Head(t) = "-" THEN 0 - magnitude
                      ELSE magnitude,
              den |-> PowerOfTen(Len(frac))]
        ELSE [ok |-> FALSE, num |-> 0, den |-> 1]

(* ---------------------------- points engine ---------------------------- *)

\* os.getenv defaults of calculate_points_reward.
POINTS_PER_RECEIPT == 10
\* BONUS_POINTS_MULTIPLIER "1.5", in tenths.
BONUS_POINTS_MULTIPLIER_TENTHS == 15
LARGE_PURCHASE_THRESHOLD == 100
MEDIUM_PURCHASE_THRESHOLD == 50
LARGE_PURCHASE_BONUS == 10
MEDIUM_PURCHASE_BONUS == 5
GROCERY_BONUS_POINTS == 3
MAX_STREAK_BONUS == 8
FALLBACK_POINTS == 5

GroceryWords ==
    { <<"g", "r", "o", "c", "e", "r", "y">>,
      <<"m", "a", "r", "k", "e", "t">>,
      <<"f", "o", "o", "d">> }

BasePointsRangeFromZero == 0..(POINTS_PER_RECEIPT + 10)

\* random.randint(max(1, B - 5), B + 10)
BasePointsRange ==
    (IF POINTS_PER_RECEIPT - 5 > 1 THEN POINTS_PER_RECEIPT - 5 ELSE 1)
        .. (POINTS_PER_RECEIPT + 10)

\* random.randint(2, max_streak_bonus)
StreakBonusRange == 2..MAX_STREAK_BONUS

\* The three random draws of one calculation.
NoDraw == [base_points |-> 0, streak_hit |-> FALSE, streak_bonus |-> 0]

NoReceipt == [merchant |-> <<>>, total |-> [type |-> "none", text |-> <<>>]]

NoCalculation ==
    [success |-> FALSE, base_points |-> 0, bonus_points |-> 0,
     total_points |-> 0, bonus_reasons |-> <<>>]

\* total_amount > threshold, for a parsed total num / den.
Exceeds(total_amount, threshold) ==
    total_amount.num > threshold * total_amount.den

PurchaseSizeReasonsMediumFirst(total_amount) ==
    IF Exceeds(total_amount, MEDIUM_PURCHASE_THRESHOLD)
    THEN << <<"Medium purchase bonus", MEDIUM_PURCHASE_BONUS>> >>
    ELSE IF Exceeds(total_amount, LARGE_PURCHASE_THRESHOLD)
    THEN << <<"Large purchase bonus", LARGE_PURCHASE_BONUS>> >>
    ELSE <<>>

\* lines 62-67: the purchase-size bonus of a parsed total, as the reason it
\* appends, <<text, amount>>.
PurchaseSizeReasons(total_amount) ==
    IF Exceeds(total_amount, LARGE_PURCHASE_THRESHOLD)
    THEN << <<"Large purchase bonus", LARGE_PURCHASE_BONUS>> >>
    ELSE IF Exceeds(total_amount, MEDIUM_PURCHASE_THRESHOLD)
    THEN << <<"Medium purchase bonus", MEDIUM_PURCHASE_BONUS>> >>
    ELSE <<>>

\* calculate_points_reward for the random draws base_points (line 47),
\* streak_hit (random.random() < 0.3, line 81) and streak_bonus (line 83).
\* receipt_data.total is [type, text]: a str, or a JSON number or null, for
\* which total_str.replace raises AttributeError and lines 101-107 answer.
calculate_points_reward(receipt_data, base_points, streak_hit, streak_bonus) ==
    IF receipt_data.total.type # "str"
    THEN [success |-> FALSE, base_points |-> 0, bonus_points |-> 0,
          total_points |-> FALLBACK_POINTS, bonus_reasons |-> <<>>]
    ELSE
    LET total_amount ==
            ParseFloat(Remove(Remove(receipt_data.total.text, "$"), ","))
        size_reasons ==
            IF total_amount.ok THEN PurchaseSizeReasons(total_amount)
            ELSE <<>>
        size_bonus == IF size_reasons = <<>> THEN 0 ELSE size_reasons[1][2]
        merchant == Lower(receipt_data.merchant)
        grocery == /\ total_amount.ok
                   /\ \E word \in GroceryWords : Contains(merchant, word)
        grocery_bonus == IF grocery THEN GROCERY_BONUS_POINTS ELSE 0
        grocery_reasons ==
            IF grocery
            THEN << <<"Grocery shopping bonus", GROCERY_BONUS_POINTS>> >>
            ELSE <<>>
        accrued == size_bonus + grocery_bonus
        streak_points ==
            IF ~streak_hit THEN 0
            ELSE IF accrued > 0
                 THEN (accrued * BONUS_POINTS_MULTIPLIER_TENTHS) \div 10
                 ELSE streak_bonus
        streak_reasons ==
            IF streak_hit THEN << <<"Streak bonus", streak_bonus>> >>
            ELSE <<>>
        bonus_points == accrued + streak_points
    IN  [success |-> TRUE,
         base_points |-> base_points,
         bonus_points |-> bonus_points,
         total_points |-> base_points + bonus_points,
         bonus_reasons |-> size_reasons \o grocery_reasons \o streak_reasons]

\* The draws explored by the workflow: the ends of each range.
BasePointsDraws ==
    {b \in BasePointsRange :
        \/ \A x \in BasePointsRange : b <= x
        \/ \A x \in BasePointsRange : b >= x}

StreakBonusDraws ==
    {b \in StreakBonusRange :
        \/ \A x \in StreakBonusRange : b <= x
        \/ \A x \in StreakBonusRange : b >= x}

\* Parsed receipts: a large grocery purchase, a total that is not a
\* number, and a total that the parser returned as a JSON number.
ReceiptInputs ==
    { [merchant |-> <<"C", "i", "t", "y", " ", "G", "r", "o", "c", "e", "r", "y">>,
       total |-> [type |-> "str", text |-> <<"$", "1", "2", "0", ".", "0", "0">>]],
      [merchant |-> <<"C", "a", "f", "e">>,
       total |-> [type |-> "str", text |-> <<"N", "/", "A">>]],
      [merchant |-> <<"S", "h", "o", "p">>,
       total |-> [type |-> "float", text |-> <<>>]] }

\* Merchant names given to the calculation: with a grocery word in lower
\* case, in upper case and in mixed case, and without one.
CalcMerchants ==
    { <<"C", "i", "t", "y", " ", "G", "r", "o", "c", "e", "r", "y">>,
      <<"F", "O", "O", "D">>,
      <<"S", "u", "p", "e", "r", " ", "M", "a", "r", "k", "e", "t">>,
      <<"C", "a", "f", "e">>,
      <<>> }

\* Totals given to the calculation: above, at and below each threshold,
\* with "$" and ",", not a number, and a JSON number or a JSON null instead
\* of a string (parse_receipt_data hands on whatever json.loads gave).
CalcTotals ==
    { [type |-> "str", text |-> <<"$", "1", "2", "0", ".", "0", "0">>],
      [type |-> "str", text |-> <<"$", "1", ",", "0", "5", "0", ".", "5", "0">>],
      [type |-> "str", text |-> <<"1", "0", "0", ".", "0", "1">>],
      [type |-> "str", text |-> <<"1", "0", "0">>],
      [type |-> "str", text |-> <<"7", "5">>],
      [type |-> "str", text |-> <<"5", "0", ".", "5">>],
      [type |-> "str", text |-> <<"5", "0">>],
      [type |-> "str", text |-> <<"1", "0">>],
      [type |-> "str", text |-> <<"N", "/", "A">>],
      [type |-> "str", text |-> <<>>],
      [type |-> "float", text |-> <<>>],
      [type |-> "null", text |-> <<>>] }

CalcReceipts ==
    {[merchant |-> m, total |-> t] : m \in CalcMerchants, t \in CalcTotals}

CalcDraws ==
    [base_points : BasePointsRange, streak_hit : BOOLEAN,
     streak_bonus : StreakBonusRange]

(* ----------------------------- achievements ---------------------------- *)

\* An evaluation that would report a receipt milestone only at its exact
\* count.
AchievementsAtExactCount(receipt_count, current_points) ==
    (IF receipt_count = 1 THEN <<"First Receipt">> ELSE <<>>)
    \o (IF receipt_count = 10 THEN <<"Receipt Collector">> ELSE <<>>)
    \o (IF receipt_count = 50 THEN <<"Receipt Master">> ELSE <<>>)
    \o (IF current_points >= 100 THEN <<"Century Club">> ELSE <<>>)
    \o (IF current_points >= 500 THEN <<"Point Collector">> ELSE <<>>)

AchievementsAboveThreshold(receipt_count, current_points) ==
    (IF receipt_count > 1 THEN <<"First Receipt">> ELSE <<>>)
    \o (IF receipt_count > 10 THEN <<"Receipt Collector">> ELSE <<>>)
    \o (IF receipt_count > 50 THEN <<"Receipt Master">> ELSE <<>>)
    \o (IF current_points > 100 THEN <<"Century Club">> ELSE <<>>)
    \o (IF current_points > 500 THEN <<"Point Collector">> ELSE <<>>)

AchievementsLatestOnly(receipt_count, current_points) ==
    (IF receipt_count >= 1 /\ receipt_count < 10
     THEN <<"First Receipt">> ELSE <<>>)
    \o (IF receipt_count >= 10 /\ receipt_count < 50
        THEN <<"Receipt Collector">> ELSE <<>>)
    \o (IF receipt_count >= 50 THEN <<"Receipt Master">> ELSE <<>>)
    \o (IF current_points >= 100 /\ current_points < 500
        THEN <<"Century Club">> ELSE <<>>)
    \o (IF current_points >= 500 THEN <<"Point Collector">> ELSE <<>>)

\* Receipt counts and balances around every threshold.
AchievementReceiptCounts == {0, 1, 2, 9, 10, 11, 49, 50, 51}

AchievementBalances == {0, 1, 99, 100, 101, 499, 500, 501}

\* get_user_achievements, lines 190-206: the unlocked achievements, in the
\* order they are appended.
Achievements(receipt_count, current_points) ==
    (IF receipt_count >= 1 THEN <<"First Receipt">> ELSE <<>>)
    \o (IF receipt_count >= 10 THEN <<"Receipt Collector">> ELSE <<>>)
    \o (IF receipt_count >= 50 THEN <<"Receipt Master">> ELSE <<>>)
    \o (IF current_points >= 100 THEN <<"Century Club">> ELSE <<>>)
    \o (IF current_points >= 500 THEN <<"Point Collector">> ELSE <<>>)

\* len(list(receipts_ref.where("userId", "==", user_id).stream()))
ReceiptCount(docs, user_id) ==
    Cardinality({i \in DOMAIN docs : docs[i].userId = user_id})

RECURSIVE Reverse(_)
Reverse(seq) ==
    IF seq = <<>> THEN <<>> ELSE Append(Reverse(Tail(seq)), Head(seq))

RecentTransactionsOldestFirst(log, user_id, limit) ==
    LET mine == SelectSeq(log, LAMBDA t : t.userId = user_id)
    IN  SubSeq(mine, 1, IF Len(mine) < limit THEN Len(mine) ELSE limit)

\* get_transaction_history: the user's entries, newest first, at most limit.
\* The position of an entry in the log stands for its timestamp.
RecentTransactions(log, user_id, limit) ==
    LET mine == Reverse(SelectSeq(log, LAMBDA t : t.userId = user_id))
    IN  SubSeq(mine, 1, IF Len(mine) < limit THEN Len(mine) ELSE limit)

(* ------------------------------ results -------------------------------- *)

\* A returned dictionary.  balance and suggestion are sets: empty when
\* the dictionary has no such key, otherwise the one number it carries.
\* status: "success" / "error" ("none" while no call has returned).
\* error: the message, as <<text>> or <<text, current, required>> for the
\* messages that quote the two amounts.
\* balance: the "balance" / "new_balance" key.  suggestion: the number
\* quoted by the "suggestion" key of WalletAgent.process_redemption.
NoResult ==
    [status |-> "none", error |-> <<>>, balance |-> {}, suggestion |-> {}]

Success(balance) ==
    [status |-> "success", error |-> <<>>, balance |-> {balance},
     suggestion |-> {}]

Failure(error, balance) ==
    [status |-> "error", error |-> error, balance |-> balance,
     suggestion |-> {}]

ErrorKind(res) == IF Len(res.error) = 0 THEN "" ELSE res.error[1]

\* HTTP response of POST /wallet/redeem: status code and the message in
\* "detail" (empty for 200).
NoResponse == [code |-> 0, detail |-> <<>>]

\* The three places that run the dashboard query: get_user_dashboard of
\* StashADKServer and of RootAgent, and parallel_dashboard_workflow of
\* StashWorkflowExamples.
Coordinators == {"StashADKServer", "RootAgent", "StashWorkflowExamples"}

\* Progress and branch results of one dashboard query.  wallet_at,
\* analytics_at and game_at are the positions of the three branches; report
\* tells whether the analytics result has a "report" key and what it holds.
NoDash ==
    [impl |-> "", wallet_at |-> "done", analytics_at |-> "done",
     game_at |-> "done", wallet_status |-> "none", balance |-> 0,
     analytics_status |-> "none", report |-> "absent",
     model_raised |-> FALSE, game_status |-> "none", total_points |-> 0]

NoFrame ==
    [op |-> "", user_id |-> "", points |-> 0, reward_id |-> "",
     reason |-> <<>>, current_balance |-> 0, new_balance |-> 0,
     receipt |-> NoReceipt, calc |-> NoCalculation, game |-> NoResult,
     receipt_count |-> 0, achievements |-> <<>>, recent |-> <<>>,
     limit |-> 0, draw |-> NoDraw, dash |-> NoDash]

Snapshot ==
    [users |-> users, point_transactions |-> point_transactions,
     redemptions |-> redemptions, receipts |-> receipts]

(* ------------------------------- Init ---------------------------------- *)

Init ==
    /\ users = [u \in UserIds |-> NoDocument]
    /\ point_transactions = <<>>
    /\ redemptions = <<>>
    /\ receipts = <<>>
    /\ pc = [c \in Callers |-> "idle"]
    /\ frame = [c \in Callers |-> NoFrame]
    /\ result = [c \in Callers |-> NoResult]
    /\ response = [c \in Callers |-> NoResponse]
    /\ pre = [c \in Callers |-> Snapshot]
    /\ ncalls = 0
    /\ held = [c \in Callers |-> {}]

(* ---------------------------- control flow ----------------------------- *)

\* POST /wallet/redeem: the route's mapping of the agent's result.
redeem_route(res) ==
    IF res.status = "success" THEN [code |-> 200, detail |-> <<>>]
    ELSE IF ErrorKind(res) = "Insufficient balance"
         THEN [code |-> 400, detail |-> res.error]
         ELSE [code |-> 500, detail |-> res.error]

\* POST /adk/receipt/process: the route's mapping of the workflow's
\* result.  For 200 the detail is <<status, points_awarded, new_balance>>,
\* the two numbers being read from the game step's result with default 0.
process_receipt_adk(res, fr) ==
    IF res.status = "success"
    THEN [code |-> 200,
          detail |-> <<"receipt processed",
                       IF fr.game.status = "success" THEN fr.points ELSE 0,
                       IF fr.game.status = "success"
                       THEN CHOOSE b \in fr.game.balance : TRUE ELSE 0>>]
    ELSE [code |-> 500, detail |-> res.error]

\* The call in slot c goes on to its next storage call.
Goto(c, next, fr) ==
    /\ pc' = [pc EXCEPT ![c] = next]
    /\ frame' = [frame EXCEPT ![c] = fr]
    /\ result' = [result EXCEPT ![c] = NoResult]
    /\ response' = [response EXCEPT ![c] = NoResponse]

\* The top-level call in slot c returns res.
Return(c, res, fr) ==
    /\ pc' = [pc EXCEPT ![c] = "idle"]
    /\ frame' = [frame EXCEPT ![c] = fr]
    /\ result' = [result EXCEPT ![c] = res]
    /\ response' = [response EXCEPT ![c] =
                       IF fr.op = "process_redemption" THEN redeem_route(res)
                       ELSE IF fr.op = "process_receipt_workflow"
                       THEN process_receipt_adk(res, fr)
                       ELSE NoResponse]

\* WalletAgent.process_redemption, lines 229-251: its result for the
\* result of redeem_reward.
RedemptionOutcome(res) ==
    IF res.status = "success" THEN res
    ELSE [status |-> "error", error |-> res.error, balance |-> {},
          suggestion |-> {}]

ReturnFromRedeem(c, res, fr) ==
    IF fr.op = "redeem_reward" THEN Return(c, res, fr)
    ELSE Return(c, RedemptionOutcome(res), fr)

\* redeem_reward, lines 245-277: the catalog lookup and the hand-over to
\* spend_points.
RedeemEntry(c, fr) ==
    LET idx == FindReward(fr.reward_id) IN
    IF idx = 0
    THEN ReturnFromRedeem(c, Failure(<<"Reward not found">>, {}), fr)
    ELSE LET reward == get_redemption_options[idx] IN
         IF ~reward.available
         THEN ReturnFromRedeem(c, Failure(<<"Reward unavailable">>, {}), fr)
         ELSE Goto(c, "spend_get",
                   [fr EXCEPT !.points = reward.cost,
                              !.reason = <<"Redeemed: ", reward.name>>])

ReturnFromSpend(c, res, fr) ==
    IF fr.op = "spend_points" THEN Return(c, res, fr)
    ELSE IF res.status = "success" THEN Goto(c, "redemption_set", fr)
    ELSE ReturnFromRedeem(c, res, fr)

\* GameAgent.award_receipt_points, lines 83-91: a failed award ends the
\* game step with an error; otherwise get_user_achievements follows.  The
\* workflow goes on to its third step either way (adk_server 71-79).
ReturnFromAward(c, res, fr) ==
    IF fr.op = "award_points_to_user" THEN Return(c, res, fr)
    ELSE IF res.status # "success"
    THEN Goto(c, "bal_get",
              [fr EXCEPT !.game = Failure(<<"Points award failed">>, {})])
    ELSE Goto(c, "achievements_receipts", [fr EXCEPT !.game = res])

WorkflowFailedAtCoordination ==
    Failure(<<"Workflow failed", "coordination">>, {})

\* adk_server 60-65: the workflow's result when step 1 failed, the error
\* being <<text, step>>.
ReceiptProcessingFailed ==
    Failure(<<"Receipt processing failed", "receipt_processing">>, {})

\* adk_server 82-89: the workflow's result.  balance is the balance of
\* wallet_status (absent when the wallet step failed); points_awarded is
\* kept in the frame's game field.
WorkflowComplete(wallet_result) ==
    [status |-> "success", error |-> <<>>,
     balance |-> IF wallet_result.status = "success"
                 THEN wallet_result.balance ELSE {},
     suggestion |-> {}]

\* get_transaction_history, lines 94-106: its result, the transactions
\* being kept in the frame's recent field; inside WalletAgent.check_balance
\* (lines 79-92) a failed history read counts as no recent transactions.
ReturnFromHistory(c, success, transactions, fr) ==
    IF fr.op = "get_transaction_history"
    THEN Return(c,
                IF success
                THEN [status |-> "success", error |-> <<>>, balance |-> {},
                      suggestion |-> {}]
                ELSE Failure(<<"exception">>, {}),
                [fr EXCEPT !.recent = transactions])
    ELSE Return(c, WorkflowComplete(Success(fr.current_balance)),
                [fr EXCEPT !.recent = transactions])

\* WalletAgent.check_balance, lines 67-78: what follows get_user_balance.
check_balance(c, res, fr) ==
    IF res.status # "success"
    THEN Return(c, WorkflowComplete(
                       Failure(<<"Could not retrieve balance">>, {})), fr)
    ELSE Goto(c, "history_get",
              [fr EXCEPT !.current_balance = CHOOSE b \in res.balance : TRUE,
                         !.limit = RecentLimit])

\* WalletAgent.process_redemption, lines 186-230: what follows its call of
\* get_user_balance.
ReturnFromBalance(c, res, fr) ==
    IF fr.op = "get_user_balance" THEN Return(c, res, fr)
    ELSE IF fr.op = "process_receipt_workflow"
    THEN check_balance(c, res, fr)
    ELSE IF res.status # "success"
    THEN Return(c, Failure(<<"Could not verify account balance">>, {}), fr)
    ELSE LET idx == FindReward(fr.reward_id) IN
         IF idx = 0 THEN Return(c, Failure(<<"Reward not found">>, {}), fr)
         ELSE LET current_balance == CHOOSE b \in res.balance : TRUE
                  required_points == get_redemption_options[idx].cost
              IN  IF current_balance < required_points
                  THEN Return(c,
                         [status |-> "error",
                          error |-> <<"Insufficient balance", current_balance,
                                      required_points>>,
                          balance |-> {},
                          suggestion |-> {required_points - current_balance}],
                         fr)
                  ELSE RedeemEntry(c, fr)

(* ------------------------------- calls --------------------------------- *)

\* Slot d has applied the increment or decrement of an award or a spend and
\* has not returned from it yet.
Applied(d) == pc[d] \in {"award_get", "award_log", "spend_log"}

\* The balances held, after a step of slot c that wrote the users
\* collection: an increment or decrement of c starts its record afresh, and
\* every other slot that has applied its own sees the new value.
Observe(c) ==
    [d \in Callers |->
        IF d = c
        THEN IF pc[c] \in {"award_update", "spend_update"}
             THEN {PointsOf(users', frame[c].user_id)}
             ELSE held[c]
        ELSE IF Applied(d)
        THEN held[d] \cup {PointsOf(users', frame[d].user_id)}
        ELSE held[d]]

NewFrame(op, user_id, points, reward_id, reason) ==
    [op |-> op, user_id |-> user_id, points |-> points,
     reward_id |-> reward_id, reason |-> reason,
     current_balance |-> 0, new_balance |-> 0,
     receipt |-> NoReceipt, calc |-> NoCalculation, game |-> NoResult,
     receipt_count |-> 0, achievements |-> <<>>, recent |-> <<>>,
     limit |-> 0, draw |-> NoDraw, dash |-> NoDash]

\* A call starts in an idle slot; the store at that moment is remembered.
Begin(c) ==
    /\ pc[c] = "idle"
    /\ ncalls < MaxCalls
    /\ ncalls' = ncalls + 1
    /\ pre' = [pre EXCEPT ![c] = Snapshot]
    /\ held' = [held EXCEPT ![c] = {}]
    /\ UNCHANGED store

CallAward(c, ids) ==
    \E u \in ids, n \in AwardPoints :
        /\ Begin(c)
        /\ Goto(c, "award_update",
                NewFrame("award_points_to_user", u, n, "", <<"tool">>))

CallSpend(c, ids) ==
    \E u \in ids, n \in SpendPoints :
        /\ Begin(c)
        /\ Goto(c, "spend_get", NewFrame("spend_points", u, n, "", <<"tool">>))

\* award_points_to_user and spend_points as tools of the agents: points is
\* any int, no line of either function tests its sign.
CallAwardSigned(c, ids) ==
    \E u \in ids, n \in SignedPoints :
        /\ Begin(c)
        /\ Goto(c, "award_update",
                NewFrame("award_points_to_user", u, n, "", <<"tool">>))

CallSpendSigned(c, ids) ==
    \E u \in ids, n \in SignedPoints :
        /\ Begin(c)
        /\ Goto(c, "spend_get", NewFrame("spend_points", u, n, "", <<"tool">>))

CallBalance(c, ids) ==
    \E u \in ids :
        /\ Begin(c)
        /\ Goto(c, "bal_get", NewFrame("get_user_balance", u, 0, "", <<>>))

CallRedeemReward(c, ids) ==
    \E u \in ids, r \in RewardInputs :
        /\ Begin(c)
        /\ RedeemEntry(c, NewFrame("redeem_reward", u, 0, r, <<>>))

CallProcessRedemption(c, ids) ==
    \E u \in ids, r \in RewardInputs :
        /\ Begin(c)
        /\ Goto(c, "bal_get", NewFrame("process_redemption", u, 0, r, <<>>))

(* ------------------------ award_points_to_user ------------------------- *)

AwardReadModifyWrite(c) ==
    [users EXCEPT ![frame[c].user_id] =
        [exists |-> TRUE,
         points |-> PointsOf(pre[c].users, frame[c].user_id)
                        + frame[c].points]]

\* line 128: the users collection after the increment of the call in slot c.
AwardWrite(c) ==
    Increment(users, frame[c].user_id, frame[c].points)

\* line 128: user_ref.update({"points": Increment(points)}).  update() of a
\* document that does not exist raises NotFound, which the except clause of
\* lines 155-160 turns into the failure result.
AwardUpdate(c) ==
    /\ pc[c] = "award_update"
    /\ LET fr == frame[c] IN
       IF users[fr.user_id].exists
       THEN /\ users' = AwardWrite(c)
            /\ Goto(c, "award_get", fr)
       ELSE /\ users' = users
            /\ ReturnFromAward(c, Failure(<<"NotFound">>, {}), fr)
    /\ held' = Observe(c)
    /\ UNCHANGED <<point_transactions, redemptions, receipts, pre, ncalls>>

\* lines 131-136: read the balance back.
AwardGet(c) ==
    /\ pc[c] = "award_get"
    /\ LET fr == frame[c] IN
       Goto(c, "award_log",
            [fr EXCEPT !.new_balance =
                IF users[fr.user_id].exists THEN users[fr.user_id].points
                ELSE fr.points])
    /\ UNCHANGED <<store, pre, ncalls, held>>

\* lines 139-154: append the earned transaction and return.
AwardLog(c) ==
    /\ pc[c] = "award_log"
    /\ LET fr == frame[c] IN
       /\ point_transactions' =
              Append(point_transactions,
                     EarnedEntry(fr.user_id, fr.points, fr.reason))
       /\ ReturnFromAward(c, Success(fr.new_balance), fr)
    /\ UNCHANGED <<users, redemptions, receipts, pre, ncalls, held>>

(* ----------------------------- spend_points ---------------------------- *)

InsufficientBalanceOrEqual(current_balance, points) ==
    current_balance <= points

SpendWriteWithoutIncrement(c) ==
    [users EXCEPT ![frame[c].user_id] =
        [exists |-> TRUE, points |-> 0 - frame[c].points]]

\* line 139: the sufficiency check.
InsufficientBalance(current_balance, points) ==
    current_balance < points

\* line 147: the users collection after the decrement of the call in slot c.
SpendWrite(c) ==
    Increment(users, frame[c].user_id, 0 - frame[c].points)

\* lines 127-144: read the balance, then the two early returns.
SpendGet(c) ==
    /\ pc[c] = "spend_get"
    /\ LET fr == frame[c] IN
       IF ~users[fr.user_id].exists
       THEN ReturnFromSpend(c, Failure(<<"User not found">>, {0}), fr)
       ELSE LET current_balance == users[fr.user_id].points IN
            IF InsufficientBalance(current_balance, fr.points)
            THEN ReturnFromSpend(c,
                    Failure(<<"Insufficient balance", current_balance,
                              fr.points>>, {current_balance}), fr)
            ELSE Goto(c, "spend_update",
                      [fr EXCEPT !.current_balance = current_balance])
    /\ UNCHANGED <<store, pre, ncalls, held>>

\* lines 147-148: the decrement; new_balance is computed from the earlier read.
SpendUpdate(c) ==
    /\ pc[c] = "spend_update"
    /\ LET fr == frame[c] IN
       /\ users' = SpendWrite(c)
       /\ Goto(c, "spend_log",
               [fr EXCEPT !.new_balance = fr.current_balance - fr.points])
    /\ held' = Observe(c)
    /\ UNCHANGED <<point_transactions, redemptions, receipts, pre, ncalls>>

\* A log write that would reuse the document of the latest entry.
SpendLogOverwritesLatest(c) ==
    /\ pc[c] = "spend_log"
    /\ LET fr == frame[c]
           entry == SpentEntry(fr.user_id, fr.points, fr.reason)
       IN
       /\ point_transactions' =
              IF point_transactions = <<>> THEN <<entry>>
              ELSE [point_transactions
                       EXCEPT ![Len(point_transactions)] = entry]
       /\ ReturnFromSpend(c, Success(fr.new_balance), fr)
    /\ UNCHANGED <<users, redemptions, receipts, pre, ncalls, held>>

\* lines 151-166: append the spent transaction and return.
SpendLog(c) ==
    /\ pc[c] = "spend_log"
    /\ LET fr == frame[c] IN
       /\ point_transactions' =
              Append(point_transactions,
                     SpentEntry(fr.user_id, fr.points, fr.reason))
       /\ ReturnFromSpend(c, Success(fr.new_balance), fr)
    /\ UNCHANGED <<users, redemptions, receipts, pre, ncalls, held>>

(* --------------------------- get_user_balance -------------------------- *)

\* lines 43-51: read the document; an existing one is answered at once.
BalanceGet(c) ==
    /\ pc[c] = "bal_get"
    /\ LET fr == frame[c] IN
       IF users[fr.user_id].exists
       THEN ReturnFromBalance(c, Success(users[fr.user_id].points), fr)
       ELSE Goto(c, "bal_set", fr)
    /\ UNCHANGED <<store, pre, ncalls, held>>

\* lines 47-48: create the document with 0 points.
BalanceSet(c) ==
    /\ pc[c] = "bal_set"
    /\ LET fr == frame[c] IN
       /\ users' = SetNewUser(users, fr.user_id)
       /\ ReturnFromBalance(c, Success(0), fr)
    /\ held' = Observe(c)
    /\ UNCHANGED <<point_transactions, redemptions, receipts, pre, ncalls>>

(* --------------------------- receipt workflow -------------------------- *)

\* StashADKServer.process_receipt_workflow is called with an image whose
\* text extraction and parsing (external services) yield the receipt r.
CallWorkflow(c, ids) ==
    \E u \in ids, r \in ReceiptInputs :
        /\ Len(receipts) < MaxReceipts
        /\ Begin(c)
        /\ Goto(c, "receipt_set",
                [NewFrame("process_receipt_workflow", u, 0, "",
                          <<"Receipt upload from ", r.merchant>>)
                    EXCEPT !.receipt = r])

\* Step 1 fails: text extraction or parsing reports an error
\* (receipt_agent 70-87) and the workflow stops at adk_server 60-65.
IngestFails(c) ==
    /\ pc[c] = "receipt_set"
    /\ Return(c, ReceiptProcessingFailed, frame[c])
    /\ UNCHANGED <<store, pre, ncalls, held>>

\* GameAgent.award_receipt_points, lines 62-80: the outcome of
\* calculate_points_reward decides whether award_points_to_user is called.
AwardReceiptPoints(c, fr, points_calc) ==
    IF ~points_calc.success
    THEN Goto(c, "bal_get",
              [fr EXCEPT !.calc = points_calc,
                         !.game = Failure(<<"Points calculation failed">>, {})])
    ELSE Goto(c, "award_update",
              [fr EXCEPT !.calc = points_calc,
                         !.points = points_calc.total_points])

\* receipt_tools line 157: the receipt document is stored; step 1 is done
\* and step 2 computes the points from the stored data.
ReceiptSet(c) ==
    /\ pc[c] = "receipt_set"
    /\ LET fr == frame[c] IN
       /\ receipts' = Append(receipts,
                             [userId |-> fr.user_id,
                              merchant |-> fr.receipt.merchant,
                              total |-> fr.receipt.total])
       /\ \E base_points \in BasePointsDraws, streak_hit \in BOOLEAN,
             streak_bonus \in StreakBonusDraws :
              \E points_calc \in
                    {calculate_points_reward(fr.receipt, base_points,
                                             streak_hit, streak_bonus)} :
                  AwardReceiptPoints(c, fr, points_calc)
    /\ UNCHANGED <<users, point_transactions, redemptions, pre, ncalls, held>>

\* get_user_achievements, lines 227-241: its result, the unlocked
\* achievements being kept in the frame; inside award_receipt_points (lines
\* 91-107) a failed evaluation counts as no achievements and the workflow
\* goes on to its third step.
ReturnFromAchievements(c, success, achievements, fr) ==
    IF fr.op = "get_user_achievements"
    THEN Return(c,
                IF success
                THEN [status |-> "success", error |-> <<>>, balance |-> {},
                      suggestion |-> {}]
                ELSE Failure(<<"exception">>, {}),
                [fr EXCEPT !.achievements = achievements])
    ELSE Goto(c, "bal_get", [fr EXCEPT !.achievements = achievements])

CallAchievements(c, ids) ==
    \E u \in ids :
        /\ Begin(c)
        /\ Goto(c, "achievements_receipts",
                NewFrame("get_user_achievements", u, 0, "", <<>>))

\* get_user_achievements, line 179: the user's receipts are counted.
AchievementsReceipts(c) ==
    /\ pc[c] = "achievements_receipts"
    /\ LET fr == frame[c] IN
       Goto(c, "achievements_user",
            [fr EXCEPT !.receipt_count = ReceiptCount(receipts, fr.user_id)])
    /\ UNCHANGED <<store, pre, ncalls, held>>

\* get_user_achievements, lines 183-206, then award_receipt_points 96-107:
\* the game step succeeds with the new_balance of the award.
AchievementsUser(c) ==
    /\ pc[c] = "achievements_user"
    /\ LET fr == frame[c] IN
       ReturnFromAchievements(c, TRUE,
           Achievements(fr.receipt_count, PointsOf(users, fr.user_id)), fr)
    /\ UNCHANGED <<store, pre, ncalls, held>>

\* get_transaction_history(user_id, limit=5), then check_balance 85-92 and
\* the workflow's return.
HistoryGet(c) ==
    /\ pc[c] = "history_get"
    /\ LET fr == frame[c] IN
       ReturnFromHistory(c, TRUE,
           RecentTransactions(point_transactions, fr.user_id, fr.limit), fr)
    /\ UNCHANGED <<store, pre, ncalls, held>>

\* get_transaction_history(user_id, limit) is called as a tool.
CallHistory(c, ids) ==
    \E u \in ids, limit \in HistoryLimits :
        /\ Begin(c)
        /\ Goto(c, "history_get",
                [NewFrame("get_transaction_history", u, 0, "", <<>>)
                    EXCEPT !.limit = limit])

(* ----------------------- calculate_points_reward ---------------------- *)

\* calculate_points_reward(receipt_data) runs with the draws of the frame.
Calculate(c) ==
    /\ pc[c] = "calculate"
    /\ \E points_calc \in
              {calculate_points_reward(frame[c].receipt,
                                       frame[c].draw.base_points,
                                       frame[c].draw.streak_hit,
                                       frame[c].draw.streak_bonus)} :
          Return(c,
                 IF points_calc.success THEN Success(points_calc.total_points)
                 ELSE Failure(<<"exception">>, {points_calc.total_points}),
                 [frame[c] EXCEPT !.calc = points_calc])
    /\ UNCHANGED <<store, pre, ncalls, held>>

(* --------------------------- get_user_dashboard ------------------------ *)

CallDashboard(c, ids) ==
    \E u \in ids, impl \in Coordinators :
        /\ Begin(c)
        /\ Goto(c, "dashboard",
                [NewFrame("get_user_dashboard", u, 0, "", <<>>)
                    EXCEPT !.dash = [NoDash EXCEPT !.impl = impl,
                                                  !.wallet_at = "get",
                                                  !.analytics_at = "call",
                                                  !.game_at = "receipts"]])

\* The wallet branch, WalletAgent.check_balance, takes its next storage
\* call: the read of get_user_balance, its account creation, or the read of
\* get_transaction_history.
DashboardWallet(c) ==
    /\ pc[c] = "dashboard"
    /\ LET fr == frame[c]
           u == fr.user_id
       IN  CASE fr.dash.wallet_at = "get" ->
                  /\ users' = users
                  /\ IF users[u].exists
                     THEN Goto(c, "dashboard",
                               [fr EXCEPT !.dash.balance = users[u].points,
                                          !.dash.wallet_at = "history"])
                     ELSE Goto(c, "dashboard",
                               [fr EXCEPT !.dash.wallet_at = "set"])
             [] fr.dash.wallet_at = "set" ->
                  /\ users' = SetNewUser(users, u)
                  /\ Goto(c, "dashboard",
                          [fr EXCEPT !.dash.balance = 0,
                                     !.dash.wallet_at = "history"])
             [] fr.dash.wallet_at = "history" ->
                  /\ users' = users
                  /\ Goto(c, "dashboard",
                          [fr EXCEPT !.recent =
                                         RecentTransactions(point_transactions,
                                                            u, RecentLimit),
                                     !.dash.wallet_status = "success",
                                     !.dash.wallet_at = "done"])
             [] fr.dash.wallet_at = "done" -> FALSE
    /\ held' = Observe(c)
    /\ UNCHANGED <<point_transactions, redemptions, receipts, pre, ncalls>>

\* The analytics branch.  The model call inside process_stash_request may
\* raise; base_agent 85-91 turns that into an error dictionary, of which
\* generate_report (StashADKServer) and analyze_spending_patterns
\* (RootAgent) read only "response" with a default, answering status
\* success either way.  generate_report puts the response text under
\* "report"; analyze_spending_patterns has no such key.
DashboardAnalytics(c) ==
    /\ pc[c] = "dashboard"
    /\ frame[c].dash.analytics_at = "call"
    /\ \E raised \in BOOLEAN :
          Goto(c, "dashboard",
               [frame[c] EXCEPT
                   !.dash.model_raised = raised,
                   !.dash.analytics_status = "success",
                   !.dash.report =
                       IF frame[c].dash.impl = "RootAgent" THEN "absent"
                       ELSE "text",
                   !.dash.analytics_at = "done"])
    /\ UNCHANGED <<store, pre, ncalls, held>>

\* The achievements branch, GameAgent.get_user_progress, takes its next
\* storage call: the receipts query or the user read of get_user_achievements.
DashboardGame(c) ==
    /\ pc[c] = "dashboard"
    /\ LET fr == frame[c]
           u == fr.user_id
       IN  CASE fr.dash.game_at = "receipts" ->
                  Goto(c, "dashboard",
                       [fr EXCEPT !.receipt_count = ReceiptCount(receipts, u),
                                  !.dash.game_at = "user"])
             [] fr.dash.game_at = "user" ->
                  Goto(c, "dashboard",
                       [fr EXCEPT !.achievements =
                                      Achievements(fr.receipt_count,
                                                   PointsOf(users, u)),
                                  !.dash.total_points = PointsOf(users, u),
                                  !.dash.game_status = "success",
                                  !.dash.game_at = "done"])
             [] fr.dash.game_at = "done" -> FALSE
    /\ UNCHANGED <<store, pre, ncalls, held>>

\* The three results are compiled (adk_server 127-149, root_agent 200-224).
\* analytics_result.get("report", {}).get("spending_summary", {}) is
\* evaluated when the analytics status is success; on the text that
\* generate_report returns under "report" it raises AttributeError, which
\* the except clause turns into the error result of the whole query.
\* parallel_dashboard_workflow (adk_workflow_example 127-142) returns the
\* three results as they are and reads nothing out of them.
DashboardJoin(c) ==
    /\ pc[c] = "dashboard"
    /\ LET fr == frame[c] IN
       /\ fr.dash.wallet_at = "done"
       /\ fr.dash.analytics_at = "done"
       /\ fr.dash.game_at = "done"
       /\ IF /\ fr.dash.impl # "StashWorkflowExamples"
             /\ fr.dash.analytics_status = "success"
             /\ fr.dash.report = "text"
          THEN Return(c, Failure(<<"Dashboard generation failed">>, {}), fr)
          ELSE Return(c,
                      Success(IF fr.dash.wallet_status = "success"
                              THEN fr.dash.balance ELSE 0),
                      IF fr.dash.game_status = "success" THEN fr
                      ELSE [fr EXCEPT !.achievements = <<>>,
                                      !.receipt_count = 0,
                                      !.dash.total_points = 0])
    /\ UNCHANGED <<store, pre, ncalls, held>>

\* The storage read of get_user_balance, or its account creation, raises:
\* check_balance answers status error (wallet_tools 59-64, wallet_agent
\* 69-74).
DashboardWalletRaises(c) ==
    /\ pc[c] = "dashboard"
    /\ frame[c].dash.wallet_at \in {"get", "set"}
    /\ Goto(c, "dashboard",
            [frame[c] EXCEPT !.dash.wallet_status = "error",
                             !.dash.wallet_at = "done"])
    /\ UNCHANGED <<store, pre, ncalls, held>>

\* A storage read of get_user_achievements raises: get_user_progress
\* answers status error (game_tools 236-241, game_agent 163-168).
DashboardGameRaises(c) ==
    /\ pc[c] = "dashboard"
    /\ frame[c].dash.game_at \in {"receipts", "user"}
    /\ Goto(c, "dashboard",
            [frame[c] EXCEPT !.dash.game_status = "error",
                             !.dash.game_at = "done"])
    /\ UNCHANGED <<store, pre, ncalls, held>>

(* ----------------------------- redeem_reward --------------------------- *)

\* lines 280-297: write the redemption record and return.
RedemptionSet(c) ==
    /\ pc[c] = "redemption_set"
    /\ LET fr == frame[c]
           reward == get_redemption_options[FindReward(fr.reward_id)]
       IN  /\ redemptions' =
                  Append(redemptions, RedemptionRecord(fr.user_id, reward))
           /\ ReturnFromRedeem(c, Success(fr.new_balance), fr)
    /\ UNCHANGED <<users, point_transactions, receipts, pre, ncalls, held>>

(* ------------------------------- faults -------------------------------- *)

AwardRaisesUnnoticed(c) ==
    /\ pc[c] \in {"award_update", "award_get", "award_log"}
    /\ frame[c].op = "process_receipt_workflow"
    /\ Goto(c, "achievements_receipts",
            [frame[c] EXCEPT !.game = Success(frame[c].points)])
    /\ UNCHANGED <<store, pre, ncalls, held>>

\* The storage call that slot c is about to make raises.  Every tool wraps
\* its body in try/except Exception and returns its failure dictionary:
\* game_tools 155-160, wallet_tools 59-64, 167-172, 298-302.
StorageRaises(c) ==
    /\ pc[c] # "idle"
    /\ LET fr == frame[c] IN
       CASE pc[c] \in {"award_update", "award_get", "award_log"} ->
                ReturnFromAward(c, Failure(<<"exception">>, {}), fr)
         [] pc[c] \in {"spend_get", "spend_update", "spend_log"} ->
                ReturnFromSpend(c, Failure(<<"exception">>, {}), fr)
         [] pc[c] \in {"bal_get", "bal_set"} ->
                ReturnFromBalance(c, Failure(<<"exception">>, {0}), fr)
         [] pc[c] = "redemption_set" ->
                ReturnFromRedeem(c, Failure(<<"exception">>, {}), fr)
         [] pc[c] = "receipt_set" ->
                Return(c, ReceiptProcessingFailed, fr)
         [] pc[c] \in {"achievements_receipts", "achievements_user"} ->
                ReturnFromAchievements(c, FALSE, <<>>, fr)
         [] pc[c] = "history_get" ->
                ReturnFromHistory(c, FALSE, <<>>, fr)
    /\ UNCHANGED <<store, pre, ncalls, held>>

\* The process serving slot c stops between two storage calls: nothing is
\* returned and nothing more is written.
CallStops(c) ==
    /\ pc[c] # "idle"
    /\ pc' = [pc EXCEPT ![c] = "idle"]
    /\ UNCHANGED <<store, frame, result, response, pre, ncalls, held>>

\* A storage call of award_points_to_user raises.
AwardRaises(c) ==
    /\ pc[c] \in {"award_update", "award_get", "award_log"}
    /\ StorageRaises(c)

\* redemption_ref.set of redeem_reward raises (wallet_tools 280-289, caught
\* at 298-302), after spend_points has returned success.
RedemptionSetRaises(c) ==
    /\ pc[c] = "redemption_set"
    /\ StorageRaises(c)

(* ---------------------------- specifications --------------------------- *)

Step(c, ids) ==
    \/ CallAward(c, ids)
    \/ CallSpend(c, ids)
    \/ CallBalance(c, ids)
    \/ CallRedeemReward(c, ids)
    \/ CallProcessRedemption(c, ids)
    \/ AwardUpdate(c)
    \/ AwardGet(c)
    \/ AwardLog(c)
    \/ SpendGet(c)
    \/ SpendUpdate(c)
    \/ SpendLog(c)
    \/ BalanceGet(c)
    \/ BalanceSet(c)
    \/ RedemptionSet(c)

\* One request at a time, every storage call succeeds.
Next == Step(1, UserIds)

Spec == Init /\ [][Next]_vars

\* One request at a time; a storage call may raise and the process may stop.
NextFault ==
    \/ Step(1, UserIds)
    \/ StorageRaises(1)
    \/ CallStops(1)

SpecFault == Init /\ [][NextFault]_vars

\* One request at a time; the write of a redemption record may raise.
NextRedemptionFault ==
    \/ Step(1, UserIds)
    \/ RedemptionSetRaises(1)

SpecRedemptionFault == Init /\ [][NextRedemptionFault]_vars

\* Two requests at a time, interleaved at their storage calls.
NextConcurrent == \E c \in Callers : Step(c, ConcurrentUserIds)

SpecConcurrent == Init /\ [][NextConcurrent]_vars

\* Balance queries and awards for user u1, two requests at a time,
\* interleaved at their storage calls; u1 has no account at first.
NextBalanceAward ==
    \E c \in Callers :
        \/ CallBalance(c, ConcurrentUserIds)
        \/ BalanceGet(c)
        \/ BalanceSet(c)
        \/ CallAward(c, ConcurrentUserIds)
        \/ AwardUpdate(c)
        \/ AwardGet(c)
        \/ AwardLog(c)

SpecBalanceAward == Init /\ [][NextBalanceAward]_vars

\* Every account exists, with 0 points.
InitAward ==
    /\ users = [u \in UserIds |-> [exists |-> TRUE, points |-> 0]]
    /\ point_transactions = <<>>
    /\ redemptions = <<>>
    /\ receipts = <<>>
    /\ pc = [c \in Callers |-> "idle"]
    /\ frame = [c \in Callers |-> NoFrame]
    /\ result = [c \in Callers |-> NoResult]
    /\ response = [c \in Callers |-> NoResponse]
    /\ pre = [c \in Callers |-> Snapshot]
    /\ ncalls = 0
    /\ held = [c \in Callers |-> {}]

\* Two award_points_to_user calls at a time on accounts that exist.
NextAward ==
    \E c \in Callers :
        \/ CallAward(c, ConcurrentUserIds)
        \/ AwardUpdate(c)
        \/ AwardGet(c)
        \/ AwardLog(c)

SpecAward == InitAward /\ [][NextAward]_vars

\* The receipt workflow and balance reads, one request at a time, every
\* storage call succeeds.
NextWorkflow ==
    \/ CallWorkflow(1, ConcurrentUserIds)
    \/ IngestFails(1)
    \/ ReceiptSet(1)
    \/ AwardUpdate(1)
    \/ AwardGet(1)
    \/ AwardLog(1)
    \/ AchievementsReceipts(1)
    \/ AchievementsUser(1)
    \/ CallBalance(1, ConcurrentUserIds)
    \/ BalanceGet(1)
    \/ BalanceSet(1)
    \/ HistoryGet(1)

SpecWorkflow == Init /\ [][NextWorkflow]_vars

\* The same, where a storage call of the award step may raise.
NextWorkflowFault ==
    \/ NextWorkflow
    \/ AwardRaises(1)

SpecWorkflowFault == Init /\ [][NextWorkflowFault]_vars

\* User u1 has no account, or one with 0 points; nothing is stored yet.
InitLedger ==
    /\ \E doc \in {NoDocument, [exists |-> TRUE, points |-> 0]} :
          users = [u \in UserIds |-> IF u = "u1" THEN doc ELSE NoDocument]
    /\ point_transactions = <<>>
    /\ redemptions = <<>>
    /\ receipts = <<>>
    /\ pc = [c \in Callers |-> "idle"]
    /\ frame = [c \in Callers |-> NoFrame]
    /\ result = [c \in Callers |-> NoResult]
    /\ response = [c \in Callers |-> NoResponse]
    /\ pre = [c \in Callers |-> Snapshot]
    /\ ncalls = 0
    /\ held = [c \in Callers |-> {}]

\* Every operation of the system on user u1, one
\* request at a time: awards, spends, balance queries, redemptions, receipt
\* uploads with their achievements and history reads, and history queries.
NextLedger ==
    \/ Step(1, ConcurrentUserIds)
    \/ CallWorkflow(1, ConcurrentUserIds)
    \/ IngestFails(1)
    \/ ReceiptSet(1)
    \/ AchievementsReceipts(1)
    \/ AchievementsUser(1)
    \/ CallHistory(1, ConcurrentUserIds)
    \/ HistoryGet(1)

SpecLedger == InitLedger /\ [][NextLedger]_vars

\* get_user_achievements calls for user u1 in slot 1 among receipt uploads,
\* awards, spends and redemptions for u1 in slot 2, one request at a time;
\* the account exists.  Slot 1 keeps the answer of its last call while
\* slot 2 works.
Alone(c) == \A d \in Callers \ {c} : pc[d] = "idle"

\* A request arrives when no other is being served.
AchievementsRequest(c) ==
    /\ Alone(c)
    /\ CallAchievements(c, ConcurrentUserIds)

LedgerRequest(c) ==
    /\ Alone(c)
    /\ \/ CallAward(c, ConcurrentUserIds)
       \/ CallSpend(c, ConcurrentUserIds)
       \/ CallRedeemReward(c, ConcurrentUserIds)
       \/ CallWorkflow(c, ConcurrentUserIds)

NextUnlocks ==
    \/ AchievementsRequest(1)
    \/ AchievementsReceipts(1)
    \/ AchievementsUser(1)
    \/ AchievementsRequest(2)
    \/ LedgerRequest(2)
    \/ AwardUpdate(2)
    \/ AwardGet(2)
    \/ AwardLog(2)
    \/ SpendGet(2)
    \/ SpendUpdate(2)
    \/ SpendLog(2)
    \/ RedemptionSet(2)
    \/ IngestFails(2)
    \/ ReceiptSet(2)
    \/ AchievementsReceipts(2)
    \/ AchievementsUser(2)
    \/ BalanceGet(2)
    \/ HistoryGet(2)

SpecUnlocks == InitAward /\ [][NextUnlocks]_vars

\* Awards and spends of any int on accounts that exist, one request at a
\* time.
NextSigned ==
    \/ CallAwardSigned(1, UserIds)
    \/ AwardUpdate(1)
    \/ AwardGet(1)
    \/ AwardLog(1)
    \/ CallSpendSigned(1, UserIds)
    \/ SpendGet(1)
    \/ SpendUpdate(1)
    \/ SpendLog(1)

SpecSigned == InitAward /\ [][NextSigned]_vars

\* Awards, spends and transaction-history queries on accounts that exist,
\* one request at a time, every storage call succeeds.
NextHistory ==
    \/ CallAward(1, UserIds)
    \/ AwardUpdate(1)
    \/ AwardGet(1)
    \/ AwardLog(1)
    \/ CallSpend(1, UserIds)
    \/ SpendGet(1)
    \/ SpendUpdate(1)
    \/ SpendLog(1)
    \/ CallHistory(1, UserIds)
    \/ HistoryGet(1)

SpecHistory == InitAward /\ [][NextHistory]_vars

\* One calculate_points_reward call for each receipt and each outcome of
\* the random draws.
InitPoints ==
    /\ users = [u \in UserIds |-> NoDocument]
    /\ point_transactions = <<>>
    /\ redemptions = <<>>
    /\ receipts = <<>>
    /\ \E r \in CalcReceipts, dr \in CalcDraws :
          frame = [c \in Callers |->
                      IF c = 1
                      THEN [NewFrame("calculate_points_reward", "", 0, "", <<>>)
                               EXCEPT !.receipt = r, !.draw = dr]
                      ELSE NoFrame]
    /\ pc = [c \in Callers |-> IF c = 1 THEN "calculate" ELSE "idle"]
    /\ result = [c \in Callers |-> NoResult]
    /\ response = [c \in Callers |-> NoResponse]
    /\ pre = [c \in Callers |-> Snapshot]
    /\ ncalls = 0
    /\ held = [c \in Callers |-> {}]

NextPoints == Calculate(1)

\* A receipts collection holding n receipts of user_id after k receipts of
\* another user.
ReceiptsOf(user_id, n, other, k) ==
    [i \in 1..(k + n) |->
        [userId |-> IF i <= k THEN other ELSE user_id,
         merchant |-> NoReceipt.merchant, total |-> NoReceipt.total]]

\* One get_user_achievements call for user u1, for each receipt count and
\* each balance around the thresholds, with and without an account and
\* with and without a receipt of u2 in the collection.
InitAchievements ==
    /\ \E p \in AchievementBalances, account \in BOOLEAN :
          users = [u \in UserIds |->
                      IF u = "u1" /\ account
                      THEN [exists |-> TRUE, points |-> p]
                      ELSE NoDocument]
    /\ point_transactions = <<>>
    /\ redemptions = <<>>
    /\ \E r \in AchievementReceiptCounts, k \in {0, 1} :
          receipts = ReceiptsOf("u1", r, "u2", k)
    /\ frame = [c \in Callers |->
                   IF c = 1
                   THEN NewFrame("get_user_achievements", "u1", 0, "", <<>>)
                   ELSE NoFrame]
    /\ pc = [c \in Callers |->
                IF c = 1 THEN "achievements_receipts" ELSE "idle"]
    /\ result = [c \in Callers |-> NoResult]
    /\ response = [c \in Callers |-> NoResponse]
    /\ pre = [c \in Callers |-> Snapshot]
    /\ ncalls = 0
    /\ held = [c \in Callers |-> {}]

NextAchievements ==
    \/ AchievementsReceipts(1)
    \/ AchievementsUser(1)

SpecAchievements == InitAchievements /\ [][NextAchievements]_vars

\* Dashboard queries for user u1, one at a time, over a store that nothing
\* else changes: u1 has no account, or an account with 0 or 100 points, and
\* no receipt or one.
InitDashboard ==
    /\ \E doc \in {NoDocument, [exists |-> TRUE, points |-> 0],
                   [exists |-> TRUE, points |-> 100]} :
          users = [u \in UserIds |-> IF u = "u1" THEN doc ELSE NoDocument]
    /\ point_transactions = <<>>
    /\ redemptions = <<>>
    /\ \E r \in {0, 1} : receipts = ReceiptsOf("u1", r, "u2", 1)
    /\ pc = [c \in Callers |-> "idle"]
    /\ frame = [c \in Callers |-> NoFrame]
    /\ result = [c \in Callers |-> NoResult]
    /\ response = [c \in Callers |-> NoResponse]
    /\ pre = [c \in Callers |-> Snapshot]
    /\ ncalls = 0
    /\ held = [c \in Callers |-> {}]

\* The three branches of a query take their steps in any order.
NextDashboard ==
    \/ CallDashboard(1, ConcurrentUserIds)
    \/ DashboardWallet(1)
    \/ DashboardAnalytics(1)
    \/ DashboardGame(1)
    \/ DashboardJoin(1)

SpecDashboard == InitDashboard /\ [][NextDashboard]_vars

\* The same, where a storage call of the wallet branch or of the
\* achievements branch may raise.
NextDashboardFault ==
    \/ NextDashboard
    \/ DashboardWalletRaises(1)
    \/ DashboardGameRaises(1)

SpecDashboardFault == InitDashboard /\ [][NextDashboardFault]_vars

SpecPoints == InitPoints /\ [][NextPoints]_vars

(* ------------------------------ properties ----------------------------- *)

RECURSIVE SumPoints(_, _)
\* Sum of the points values of user_id's entries of a transaction log.
SumPoints(log, user_id) ==
    IF log = <<>> THEN 0
    ELSE (IF Head(log).userId = user_id THEN Head(log).points ELSE 0)
         + SumPoints(Tail(log), user_id)

EntriesOf(log, user_id) ==
    {i \in 1..Len(log) : log[i].userId = user_id}

Quiescent == \A c \in Callers : pc[c] = "idle"

\* Slot c holds a returned call of one of the operations ops.
Returned(c, ops) ==
    /\ pc[c] = "idle"
    /\ result[c].status # "none"
    /\ frame[c].op \in ops

\* Between the start and the return of the call in slot c no balance
\* changed and no transaction or redemption record was written (the account
\* of a user without one may have been created with 0 points).
NoLedgerChange(c) ==
    /\ \A u \in UserIds : PointsOf(users, u) = PointsOf(pre[c].users, u)
    /\ point_transactions = pre[c].point_transactions
    /\ redemptions = pre[c].redemptions

\* Nothing at all was written between the start and the return.
StoreUnchanged(c) ==
    /\ users = pre[c].users
    /\ point_transactions = pre[c].point_transactions
    /\ redemptions = pre[c].redemptions
    /\ receipts = pre[c].receipts

\* C1: when no call is in progress, after any sequence of completed award,
\* spend, balance and redemption calls (successful or failing, any users)
\* over a store whose calls do not raise, every user's stored balance equals
\* the sum of the points of that user's point_transactions entries.
C1_BalanceEqualsLogSum ==
    Quiescent =>
        \A u \in UserIds :
            PointsOf(users, u) = SumPoints(point_transactions, u)

\* C1 witness: a spend has just failed for insufficient balance on a user
\* who has a positive balance and both an earned and a spent entry.
C1_Witness ==
    /\ Returned(1, {"spend_points"})
    /\ ErrorKind(result[1]) = "Insufficient balance"
    /\ users[frame[1].user_id].points > 0
    /\ \E i, j \in EntriesOf(point_transactions, frame[1].user_id) :
          /\ point_transactions[i].type = "earned"
          /\ point_transactions[j].type = "spent"

\* A call of slot c on user_id sits between its balance write and its log
\* write.
BetweenWrites(user_id) ==
    \E c \in Callers :
        /\ pc[c] \in {"award_get", "award_log", "spend_log"}
        /\ frame[c].user_id = user_id

\* C2: in every reachable state, also after a storage write of an award or
\* spend failed or the call stopped between its two writes, a user's balance
\* reflects exactly the logged transactions: no balance change without its
\* point_transactions entry and no entry without its balance change.
C2_NoChangeWithoutEntry ==
    \A u \in UserIds :
        ~BetweenWrites(u) =>
            PointsOf(users, u) = SumPoints(point_transactions, u)

\* C3 as claimed: spend_points(user, p) fails with the insufficient-balance
\* error and leaves the store unchanged iff p exceeds the current balance
\* (0 for a user with no account); otherwise it succeeds and debits p.
C3_SpendFailsIffInsufficient ==
    Returned(1, {"spend_points"}) =>
        LET u == frame[1].user_id
            p == frame[1].points
            b == PointsOf(pre[1].users, u)
            failed == /\ ErrorKind(result[1]) = "Insufficient balance"
                      /\ StoreUnchanged(1)
        IN  /\ failed <=> p > b
            /\ ~(p > b) =>
                  /\ result[1] = Success(b - p)
                  /\ users = [pre[1].users EXCEPT ![u].points = b - p]
                  /\ point_transactions =
                        Append(pre[1].point_transactions,
                               [userId |-> u, points |-> 0 - p,
                                reason |-> frame[1].reason, type |-> "spent"])

\* C3 as amended: for a user who has an account, spend_points(user, p)
\* fails with the insufficient-balance error and leaves the store unchanged
\* iff p exceeds the balance, and otherwise succeeds, debits exactly p and
\* appends one spent entry of -p; for a user with no account it fails with
\* "User not found" and leaves the store unchanged.
C3_SpendFailsIffInsufficientOnAccount ==
    Returned(1, {"spend_points"}) =>
        LET u == frame[1].user_id
            p == frame[1].points
            b == PointsOf(pre[1].users, u)
            failed == /\ ErrorKind(result[1]) = "Insufficient balance"
                      /\ StoreUnchanged(1)
        IN  IF ~pre[1].users[u].exists
            THEN /\ result[1] = Failure(<<"User not found">>, {0})
                 /\ StoreUnchanged(1)
            ELSE /\ failed <=> p > b
                 /\ ~(p > b) =>
                       /\ result[1] = Success(b - p)
                       /\ users = [pre[1].users EXCEPT ![u].points = b - p]
                       /\ point_transactions =
                             Append(pre[1].point_transactions,
                                    [userId |-> u, points |-> 0 - p,
                                     reason |-> frame[1].reason,
                                     type |-> "spent"])

\* C3 witness: a spend of exactly the balance of an account has succeeded
\* and left it at 0 with the spent entry as the last one of the log.
C3_Witness ==
    /\ Returned(1, {"spend_points"})
    /\ pre[1].users[frame[1].user_id].exists
    /\ pre[1].users[frame[1].user_id].points = frame[1].points
    /\ result[1].status = "success"
    /\ users[frame[1].user_id].points = 0

\* C4: when concurrent award_points_to_user calls on existing users have all
\* completed, no award is lost: the log holds one earned entry per call and
\* every balance is the initial 0 plus the sum of the points awarded to that
\* user.
C4_NoAwardLost ==
    Quiescent =>
        /\ Len(point_transactions) = ncalls
        /\ \A i \in 1..Len(point_transactions) :
              point_transactions[i].type = "earned"
        /\ \A u \in UserIds :
              users[u].points = SumPoints(point_transactions, u)

\* C4 witness: two award calls on the same user overlap, both increments
\* are applied and neither call has yet written its log entry.
C4_Witness ==
    /\ pc[1] = "award_log"
    /\ pc[2] = "award_log"
    /\ frame[1].user_id = frame[2].user_id
    /\ pre[1].users = pre[2].users
    /\ users[frame[1].user_id].points =
          pre[1].users[frame[1].user_id].points
              + frame[1].points + frame[2].points

\* C5: a user's stored balance is never negative, under every interleaving
\* of concurrent spend_points and redemption calls on the same user.
C5_BalanceNonNegative ==
    \A u \in UserIds : users[u].points >= 0

\* C6: award_points_to_user on a user with no account creates the account
\* with balance = points, appends one earned entry and returns success with
\* new_balance = points.
C6_AwardCreatesAccount ==
    (Returned(1, {"award_points_to_user"})
         /\ ~pre[1].users[frame[1].user_id].exists) =>
        LET u == frame[1].user_id
            n == frame[1].points
        IN  /\ users[u] = [exists |-> TRUE, points |-> n]
            /\ point_transactions =
                  Append(pre[1].point_transactions,
                         [userId |-> u, points |-> n,
                          reason |-> frame[1].reason, type |-> "earned"])
            /\ result[1] = Success(n)

\* C7: when the receipt workflow has run to completion for a user whose
\* balance was b before (0 without an account) and nothing else touched the
\* user, the balance stored and the balance reported by the third step are
\* both b plus the total_points computed for the receipt.
C7_WorkflowBalance ==
    (Returned(1, {"process_receipt_workflow"}) /\ result[1].status = "success")
    => LET u == frame[1].user_id
           expected == PointsOf(pre[1].users, u) + frame[1].calc.total_points
       IN  /\ users[u].exists
           /\ users[u].points = expected
           /\ result[1].balance = {expected}

RedemptionOps == {"redeem_reward", "process_redemption"}

\* The catalog entries whose id is reward_id.
CatalogEntries(reward_id) ==
    {i \in DOMAIN get_redemption_options :
        get_redemption_options[i].id = reward_id}

\* C8: a successful redemption was of a catalog reward that is available, by
\* a user whose balance was at least its cost; it reduced that balance by
\* exactly the cost, appended exactly one spent transaction of -cost and
\* created exactly one redemption record for that user and reward with status
\* pending_fulfillment.
C8_SuccessfulRedemption ==
    (Returned(1, RedemptionOps) /\ result[1].status = "success") =>
        \E i \in CatalogEntries(frame[1].reward_id) :
            LET u == frame[1].user_id
                reward == get_redemption_options[i]
                b == PointsOf(pre[1].users, u)
            IN  /\ reward.available
                /\ pre[1].users[u].exists
                /\ b >= reward.cost
                /\ users = [pre[1].users EXCEPT ![u].points = b - reward.cost]
                /\ point_transactions =
                      Append(pre[1].point_transactions,
                             [userId |-> u, points |-> 0 - reward.cost,
                              reason |-> <<"Redeemed: ", reward.name>>,
                              type |-> "spent"])
                /\ redemptions =
                      Append(pre[1].redemptions,
                             [userId |-> u, rewardId |-> reward.id,
                              rewardName |-> reward.name,
                              pointsCost |-> reward.cost,
                              status |-> "pending_fulfillment"])
                /\ result[1].balance = {b - reward.cost}

\* C8 witness: POST /wallet/redeem has succeeded for a user who keeps a
\* positive balance after paying the cost.
C8_Witness ==
    /\ Returned(1, {"process_redemption"})
    /\ result[1].status = "success"
    /\ response[1].code = 200
    /\ users[frame[1].user_id].points > 0
    /\ Len(redemptions) = 1

\* C9 as claimed: a redemption fails with reward-not-found when reward_id is
\* not in the catalog, with reward-unavailable when the entry is not
\* available, and with insufficient-balance when the balance (0 without an
\* account) is below the cost; in each case no balance changes and no
\* transaction or redemption record is written.
C9_RedemptionFailures ==
    Returned(1, RedemptionOps) =>
        LET u == frame[1].user_id
            b == PointsOf(pre[1].users, u)
            found == CatalogEntries(frame[1].reward_id)
        IN  /\ found = {} =>
                /\ ErrorKind(result[1]) = "Reward not found"
                /\ NoLedgerChange(1)
            /\ \A i \in found :
                LET reward == get_redemption_options[i] IN
                /\ ~reward.available =>
                      /\ ErrorKind(result[1]) = "Reward unavailable"
                      /\ NoLedgerChange(1)
                /\ (reward.available /\ b < reward.cost) =>
                      /\ ErrorKind(result[1]) = "Insufficient balance"
                      /\ NoLedgerChange(1)

\* C9 as amended: as claimed, except that redeem_reward called for a user
\* who has no account fails, for a reward that is in the catalog and
\* available, with "User not found" instead of insufficient-balance (still
\* without any change); WalletAgent.process_redemption creates the missing
\* account with 0 points first and then fails with insufficient-balance.
C9_RedemptionFailuresOnAccount ==
    Returned(1, RedemptionOps) =>
        LET u == frame[1].user_id
            b == PointsOf(pre[1].users, u)
            found == CatalogEntries(frame[1].reward_id)
            direct == frame[1].op = "redeem_reward"
        IN  /\ found = {} =>
                /\ ErrorKind(result[1]) = "Reward not found"
                /\ NoLedgerChange(1)
            /\ \A i \in found :
                LET reward == get_redemption_options[i] IN
                /\ ~reward.available =>
                      /\ ErrorKind(result[1]) = "Reward unavailable"
                      /\ NoLedgerChange(1)
                /\ (reward.available /\ b < reward.cost) =>
                      /\ ErrorKind(result[1]) =
                            IF direct /\ ~pre[1].users[u].exists
                            THEN "User not found"
                            ELSE "Insufficient balance"
                      /\ NoLedgerChange(1)
                      /\ direct => StoreUnchanged(1)
                      /\ ~direct => users = SetNewUser(pre[1].users, u)
                                    \/ users = pre[1].users

\* C9 witness: a redemption of a catalog reward has failed for insufficient
\* balance on an account that holds points and has a transaction log.
C9_Witness ==
    /\ Returned(1, RedemptionOps)
    /\ ErrorKind(result[1]) = "Insufficient balance"
    /\ CatalogEntries(frame[1].reward_id) # {}
    /\ users[frame[1].user_id].points > 0
    /\ point_transactions # <<>>

\* C9 second case reached: an unknown reward id has been refused.
C9_WitnessNotFound ==
    /\ Returned(1, RedemptionOps)
    /\ CatalogEntries(frame[1].reward_id) = {}
    /\ ErrorKind(result[1]) = "Reward not found"
    /\ users[frame[1].user_id].points > 0

\* C10: every redemption that fails for insufficient balance returns a
\* failure that carries the shortfall, the reward's cost minus the user's
\* current balance, whichever check detected it.
C10_FailureCarriesShortfall ==
    (Returned(1, RedemptionOps)
         /\ ErrorKind(result[1]) = "Insufficient balance") =>
        \E i \in CatalogEntries(frame[1].reward_id) :
            result[1].suggestion =
                {get_redemption_options[i].cost
                    - PointsOf(pre[1].users, frame[1].user_id)}

\* C11: get_user_balance answers success with balance 0 for a user without
\* an account, whose account it creates with 0 points, and with the stored
\* balance for an existing user; it appends no transaction and leaves every
\* account that existed as it was.
C11_BalanceQuery ==
    Returned(1, {"get_user_balance"}) =>
        LET u == frame[1].user_id IN
        /\ result[1].status = "success"
        /\ result[1].balance = {PointsOf(pre[1].users, u)}
        /\ users[u].exists
        /\ ~pre[1].users[u].exists => users[u].points = 0
        /\ \A v \in UserIds : pre[1].users[v].exists => users[v] = pre[1].users[v]
        /\ \A v \in UserIds \ {u} : users[v] = pre[1].users[v]
        /\ point_transactions = pre[1].point_transactions

\* C11 witness: a balance query has created the account of a user while
\* the other user holds points.
C11_Witness ==
    /\ Returned(1, {"get_user_balance"})
    /\ ~pre[1].users[frame[1].user_id].exists
    /\ users[frame[1].user_id].exists
    /\ \E v \in UserIds : v # frame[1].user_id /\ users[v].points > 0

\* C11, existing user: a balance query has answered a positive stored
\* balance.
C11_WitnessExisting ==
    /\ Returned(1, {"get_user_balance"})
    /\ pre[1].users[frame[1].user_id].exists
    /\ result[1].balance # {0}

\* The entries of user_id in a transaction log, oldest first.
UserLog(log, user_id) == SelectSeq(log, LAMBDA t : t.userId = user_id)

\* C12: get_transaction_history(user, limit) returns at most limit entries,
\* all of that user, newest first: the i-th returned entry is the i-th from
\* the end of the user's log, and all of the log is returned when it has
\* fewer than limit entries.
C12_HistoryNewestFirst ==
    Returned(1, {"get_transaction_history"}) =>
        LET u == frame[1].user_id
            mine == UserLog(pre[1].point_transactions, u)
            transactions == frame[1].recent
        IN  /\ result[1].status = "success"
            /\ Len(transactions) <= frame[1].limit
            /\ \A i \in DOMAIN transactions : transactions[i].userId = u
            /\ Len(transactions) =
                  IF Len(mine) < frame[1].limit THEN Len(mine)
                  ELSE frame[1].limit
            /\ \A i \in DOMAIN transactions :
                  transactions[i] = mine[Len(mine) + 1 - i]

\* C12 witness: a query with a limit below the length of the user's log has
\* returned, the log holding entries of both users and the user's newest
\* entry differing from the oldest.
C12_Witness ==
    /\ Returned(1, {"get_transaction_history"})
    /\ LET mine == UserLog(pre[1].point_transactions, frame[1].user_id) IN
       /\ Len(mine) > frame[1].limit
       /\ Len(mine) < Len(pre[1].point_transactions)
       /\ mine[1] # mine[Len(mine)]
       /\ frame[1].recent # <<>>

\* C12, short log: a query with a limit above the length of a non-empty log
\* has returned.
C12_WitnessShortLog ==
    /\ Returned(1, {"get_transaction_history"})
    /\ LET mine == UserLog(pre[1].point_transactions, frame[1].user_id) IN
       /\ Len(mine) > 1
       /\ Len(mine) < frame[1].limit

\* The result of calculate_points_reward has the keys base_points and
\* bonus_points, adds them up to total_points, and its base_points lies in
\* [max(1, B - 5), B + 10] for B the configured points per receipt.
WellFormedPoints(points_calc) ==
    /\ points_calc.success
    /\ points_calc.total_points
          = points_calc.base_points + points_calc.bonus_points
    /\ points_calc.base_points >= 1
    /\ points_calc.base_points >= POINTS_PER_RECEIPT - 5
    /\ points_calc.base_points <= POINTS_PER_RECEIPT + 10

C13_WitnessRaised ==
    /\ Returned(1, {"calculate_points_reward"})
    /\ ~frame[1].calc.success

\* The total of a receipt as calculate_points_reward reads it.
ParsedTotal(receipt_data) ==
    ParseFloat(Remove(Remove(receipt_data.total.text, "$"), ","))

\* The texts of a list of bonus reasons.
ReasonTexts(bonus_reasons) ==
    {bonus_reasons[i][1] : i \in DOMAIN bonus_reasons}

\* Place of a bonus reason in the order size, grocery, streak.
ReasonRank(text) ==
    CASE text \in {"Large purchase bonus", "Medium purchase bonus"} -> 1
      [] text = "Grocery shopping bonus" -> 2
      [] text = "Streak bonus" -> 3

\* C14: a total above the large threshold gets only the large-purchase
\* bonus, a total above the medium threshold and not above the large one
\* only the medium-purchase bonus, a total at or below the medium threshold
\* neither; bonus_reasons lists the applied bonuses in the order size,
\* grocery, streak.
C14_SizeBonusExclusive ==
    (Returned(1, {"calculate_points_reward"}) /\ frame[1].calc.success) =>
        LET total_amount == ParsedTotal(frame[1].receipt)
            reasons == frame[1].calc.bonus_reasons
            texts == ReasonTexts(reasons)
            large == total_amount.num
                        > LARGE_PURCHASE_THRESHOLD * total_amount.den
            medium == total_amount.num
                        > MEDIUM_PURCHASE_THRESHOLD * total_amount.den
            size_bonus == IF large THEN LARGE_PURCHASE_BONUS
                          ELSE IF medium THEN MEDIUM_PURCHASE_BONUS ELSE 0
            other_bonus == IF "Grocery shopping bonus" \in texts
                           THEN GROCERY_BONUS_POINTS ELSE 0
        IN  /\ total_amount.ok =>
                /\ "Large purchase bonus" \in texts <=> large
                /\ "Medium purchase bonus" \in texts <=> (medium /\ ~large)
                /\ \A i \in DOMAIN reasons :
                      /\ reasons[i][1] = "Large purchase bonus"
                            => reasons[i][2] = LARGE_PURCHASE_BONUS
                      /\ reasons[i][1] = "Medium purchase bonus"
                            => reasons[i][2] = MEDIUM_PURCHASE_BONUS
                /\ ~frame[1].draw.streak_hit =>
                      frame[1].calc.bonus_points = size_bonus + other_bonus
            /\ \A i, j \in DOMAIN reasons :
                   i < j => ReasonRank(reasons[i][1]) < ReasonRank(reasons[j][1])

\* C14 witness: a total of exactly the large threshold, from a grocery
\* merchant with the streak drawn, got the medium bonus, listed first of
\* three reasons.
C14_Witness ==
    /\ Returned(1, {"calculate_points_reward"})
    /\ frame[1].receipt.total.text = <<"1", "0", "0">>
    /\ Len(frame[1].calc.bonus_reasons) = 3
    /\ frame[1].calc.bonus_reasons[1][1] = "Medium purchase bonus"

\* C14, large: a total above the large threshold got the large bonus.
C14_WitnessLarge ==
    /\ Returned(1, {"calculate_points_reward"})
    /\ frame[1].receipt.total.text = <<"1", "0", "0", ".", "0", "1">>
    /\ "Large purchase bonus" \in ReasonTexts(frame[1].calc.bonus_reasons)

\* C15: the grocery bonus is in the result exactly when the lower-cased
\* merchant name contains one of the grocery substrings, whatever the total
\* is: above, between or below the thresholds, or not a number.
C15_GroceryBonusIndependent ==
    (Returned(1, {"calculate_points_reward"}) /\ frame[1].calc.success) =>
        ("Grocery shopping bonus" \in ReasonTexts(frame[1].calc.bonus_reasons)
            <=> \E word \in GroceryWords :
                    Contains(Lower(frame[1].receipt.merchant), word))

\* C16: when the points calculation raised, the award step of the workflow
\* reports no error and the user is awarded the fallback points: one
\* earned entry of FALLBACK_POINTS is logged and the balance grows by it
\* (stated for a user who has an account, where the award itself can work).
C16_CalculationFailureAbsorbed ==
    (/\ Returned(1, {"process_receipt_workflow"})
     /\ result[1].status = "success"
     /\ ~frame[1].calc.success
     /\ pre[1].users[frame[1].user_id].exists) =>
        LET u == frame[1].user_id IN
        /\ frame[1].game.status = "success"
        /\ users[u].points = pre[1].users[u].points + FALLBACK_POINTS
        /\ Len(point_transactions) = Len(pre[1].point_transactions) + 1
        /\ point_transactions[Len(point_transactions)].points = FALLBACK_POINTS

\* The names in a list of achievements.
Unlocked(achievements) == {achievements[i] : i \in DOMAIN achievements}

\* C17: get_user_achievements returns as unlocked exactly the achievements
\* whose threshold is met by the user's receipt count r and balance p:
\* First Receipt iff r >= 1, Receipt Collector iff r >= 10, Receipt Master
\* iff r >= 50, Century Club iff p >= 100, Point Collector iff p >= 500.
C17_AchievementsByThreshold ==
    Returned(1, {"get_user_achievements"}) =>
        LET u == frame[1].user_id
            r == Cardinality(EntriesOf(pre[1].receipts, u))
            p == PointsOf(pre[1].users, u)
            unlocked == Unlocked(frame[1].achievements)
        IN  /\ result[1].status = "success"
            /\ "First Receipt" \in unlocked <=> r >= 1
            /\ "Receipt Collector" \in unlocked <=> r >= 10
            /\ "Receipt Master" \in unlocked <=> r >= 50
            /\ "Century Club" \in unlocked <=> p >= 100
            /\ "Point Collector" \in unlocked <=> p >= 500
            /\ unlocked \subseteq
                  {"First Receipt", "Receipt Collector", "Receipt Master",
                   "Century Club", "Point Collector"}
            /\ Len(frame[1].achievements) = Cardinality(unlocked)

\* C17 witness: an evaluation for exactly 10 receipts and exactly 500
\* points, with a receipt of another user in the collection, has returned
\* four achievements.
C17_Witness ==
    /\ Returned(1, {"get_user_achievements"})
    /\ Cardinality(EntriesOf(receipts, "u1")) = 10
    /\ Len(receipts) = 11
    /\ PointsOf(users, "u1") = 500
    /\ Len(frame[1].achievements) = 4

\* C18: the unlocked set is monotonic: what an evaluation returned for
\* receipt count r and balance p is also unlocked for every r' >= r and
\* p' >= p.
C18_AchievementsMonotonic ==
    Returned(1, {"get_user_achievements"}) =>
        LET u == frame[1].user_id
            r == Cardinality(EntriesOf(pre[1].receipts, u))
            p == PointsOf(pre[1].users, u)
        IN  \A r2 \in AchievementReceiptCounts, p2 \in AchievementBalances :
                (r <= r2 /\ p <= p2) =>
                    Unlocked(frame[1].achievements)
                        \subseteq Unlocked(Achievements(r2, p2))

\* C18 witness: an evaluation below the upper thresholds has returned
\* achievements of both kinds, with larger inputs left to compare with.
C18_Witness ==
    /\ Returned(1, {"get_user_achievements"})
    /\ Unlocked(frame[1].achievements) = {"First Receipt", "Century Club"}
    /\ Cardinality(EntriesOf(receipts, "u1")) < 9
    /\ PointsOf(users, "u1") < 499

\* C19: a workflow whose ingestion step failed aborts and reports
\* receipt_processing as the failing step: the award step and the balance
\* step have not run, so no receipt is stored, no balance has changed, no
\* account was created and no transaction is logged; a workflow that did
\* not abort has stored its receipt.
C19_IngestionFailureAborts ==
    Returned(1, {"process_receipt_workflow"}) =>
        IF Len(receipts) = Len(pre[1].receipts)
        THEN /\ result[1].status = "error"
             /\ result[1].error
                   = <<"Receipt processing failed", "receipt_processing">>
             /\ response[1].code = 500
             /\ frame[1].calc = NoCalculation
             /\ frame[1].game = NoResult
             /\ result[1].balance = {}
             /\ StoreUnchanged(1)
        ELSE result[1].status = "success"

\* C19 witness: a workflow has aborted for a user who holds points and has
\* a receipt from an earlier workflow.
C19_Witness ==
    /\ Returned(1, {"process_receipt_workflow"})
    /\ result[1].status = "error"
    /\ receipts # <<>>
    /\ users[frame[1].user_id].points > 0

\* C19, no account: a workflow has aborted for a user without an account,
\* whose balance step would have created it.
C19_WitnessNoAccount ==
    /\ Returned(1, {"process_receipt_workflow"})
    /\ result[1].status = "error"
    /\ ~users[frame[1].user_id].exists

\* C20: when the award step failed after ingestion succeeded, the
\* workflow's result carries the failure and no awarded points (the route
\* answers points_awarded 0), the receipt stored in step 1 is kept, and step
\* 3 has read the balance, which the result reports.
C20_AwardFailureSurfaced ==
    (Returned(1, {"process_receipt_workflow"})
         /\ Len(receipts) > Len(pre[1].receipts)
         /\ Len(point_transactions) = Len(pre[1].point_transactions)) =>
        LET u == frame[1].user_id IN
        /\ frame[1].game.status = "error"
        /\ frame[1].game.balance = {}
        /\ response[1].detail = <<"receipt processed", 0, 0>>
        /\ receipts = Append(pre[1].receipts,
                             [userId |-> u,
                              merchant |-> frame[1].receipt.merchant,
                              total |-> frame[1].receipt.total])
        /\ result[1].status = "success"
        /\ users[u].exists
        /\ result[1].balance = {users[u].points}

\* C20 witness: the award step of a workflow failed on a raising storage
\* call after the balance had been incremented, for a user who had
\* points, and the workflow has completed.
C20_Witness ==
    /\ Returned(1, {"process_receipt_workflow"})
    /\ frame[1].game.status = "error"
    /\ frame[1].calc.success
    /\ pre[1].users[frame[1].user_id].exists
    /\ pre[1].users[frame[1].user_id].points > 0
    /\ users[frame[1].user_id].points > pre[1].users[frame[1].user_id].points
    /\ result[1].status = "success"

\* The branches of the dashboard query in slot c in which a call failed.
FailedBranches(c) ==
    {b \in {"wallet", "analytics", "gamification"} :
        \/ b = "wallet" /\ frame[c].dash.wallet_status = "error"
        \/ b = "analytics" /\ frame[c].dash.model_raised
        \/ b = "gamification" /\ frame[c].dash.game_status = "error"}

\* C21: a dashboard query in which exactly one branch failed succeeds as a
\* whole, reports the error status for that branch only, and returns the
\* results of the other two branches intact.
C21_BranchFailureIsolated ==
    (Returned(1, {"get_user_dashboard"})
         /\ Cardinality(FailedBranches(1)) = 1) =>
        LET fr == frame[1]
            u == fr.user_id
            failed == FailedBranches(1)
        IN  /\ result[1].status = "success"
            /\ fr.dash.analytics_status
                  = IF "analytics" \in failed THEN "error" ELSE "success"
            /\ "wallet" \notin failed =>
                  /\ fr.dash.wallet_status = "success"
                  /\ result[1].balance = {PointsOf(pre[1].users, u)}
            /\ "gamification" \notin failed =>
                  /\ fr.dash.game_status = "success"
                  /\ fr.achievements =
                        Achievements(ReceiptCount(pre[1].receipts, u),
                                     PointsOf(pre[1].users, u))

\* C22: over a store that nothing else changes, a dashboard query returns
\* the balance, the achievements and the stats that the store held when the
\* query began, whatever the order in which its three branches took their
\* steps, also when the wallet branch created the account; and its outcome
\* is the same for every order.
C22_DashboardOrderIndependent ==
    Returned(1, {"get_user_dashboard"}) =>
        LET fr == frame[1]
            u == fr.user_id
            balance == PointsOf(pre[1].users, u)
            receipt_count == ReceiptCount(pre[1].receipts, u)
        IN  /\ fr.dash.wallet_status = "success"
            /\ fr.dash.game_status = "success"
            /\ fr.dash.balance = balance
            /\ fr.achievements = Achievements(receipt_count, balance)
            /\ fr.receipt_count = receipt_count
            /\ fr.dash.total_points = balance
            /\ result[1].status =
                  IF fr.dash.impl = "StashADKServer" THEN "error"
                  ELSE "success"
            /\ result[1].status = "success" => result[1].balance = {balance}

\* A query has returned for a user whose account its wallet branch created.
C22_Witness ==
    /\ Returned(1, {"get_user_dashboard"})
    /\ result[1].status = "success"
    /\ ~pre[1].users[frame[1].user_id].exists
    /\ users[frame[1].user_id].exists

\* A query has returned a full balance and its achievements.
C22_WitnessCentury ==
    /\ Returned(1, {"get_user_dashboard"})
    /\ result[1].balance = {100}
    /\ Len(frame[1].achievements) >= 2

\* The spent transactions of user_id written by redemptions of reward.
RedemptionSpends(user_id, reward) ==
    {i \in DOMAIN point_transactions :
        /\ point_transactions[i].userId = user_id
        /\ point_transactions[i].type = "spent"
        /\ point_transactions[i].reason = <<"Redeemed: ", reward.name>>}

\* The redemption records of user_id for reward.
RedemptionRecords(user_id, reward) ==
    {i \in DOMAIN redemptions :
        /\ redemptions[i].userId = user_id
        /\ redemptions[i].rewardName = reward.name}

\* C23: whenever no redemption is in progress, also after the write of a
\* redemption record failed, each user has for each reward as many
\* redemption records as spent transactions 'Redeemed: <reward name>', each
\* of them carrying the reward's cost.
C23_RedemptionsMatchSpends ==
    Quiescent =>
        \A u \in UserIds :
            \A k \in DOMAIN get_redemption_options :
                LET reward == get_redemption_options[k] IN
                /\ Cardinality(RedemptionSpends(u, reward))
                     = Cardinality(RedemptionRecords(u, reward))
                /\ \A i \in RedemptionSpends(u, reward) :
                      point_transactions[i].points = 0 - reward.cost
                /\ \A i \in RedemptionRecords(u, reward) :
                      redemptions[i].pointsCost = reward.cost

\* Collection before is what collection after begins with.
IsPrefix(before, after) ==
    /\ Len(before) <= Len(after)
    /\ SubSeq(after, 1, Len(before)) = before

\* Slot c holds a successful award or spend, made on its own or within a
\* redemption.
LedgerCallSucceeded(c) ==
    /\ pc[c] = "idle"
    /\ result[c].status = "success"
    /\ frame[c].op
          \in {"award_points_to_user", "spend_points", "redeem_reward",
               "process_redemption"}

\* C24: no step of any operation changes or removes an existing entry of
\* point_transactions, receipts or redemptions, and a successful award or
\* spend has appended exactly one transaction.
C24_AppendOnly ==
    /\ [][/\ IsPrefix(point_transactions, point_transactions')
          /\ IsPrefix(receipts, receipts')
          /\ IsPrefix(redemptions, redemptions')]_vars
    /\ [](LedgerCallSucceeded(1) =>
            /\ Len(point_transactions) = Len(pre[1].point_transactions) + 1
            /\ IsPrefix(pre[1].point_transactions, point_transactions))

\* A spend has succeeded on a log, a receipts collection and a redemptions
\* collection that all held entries already.
C24_Witness ==
    /\ Returned(1, {"spend_points"})
    /\ result[1].status = "success"
    /\ Len(pre[1].point_transactions) >= 2
    /\ Len(receipts) >= 1
    /\ Len(redemptions) >= 1

TotalUnparseable(receipt_data) ==
    \/ receipt_data.total.type = "null"
    \/ /\ receipt_data.total.type = "str"
       /\ ~ParsedTotal(receipt_data).ok

\* C26: for a receipt whose total cannot be parsed as a number
\* calculate_points_reward returns success, not the failure result with the
\* fallback award, with base_points in range and without a purchase-size
\* bonus.
C26_UnparseableTotalSkipsBonus ==
    (Returned(1, {"calculate_points_reward"})
         /\ TotalUnparseable(frame[1].receipt)) =>
        LET points_calc == frame[1].calc IN
        /\ WellFormedPoints(points_calc)
        /\ ReasonTexts(points_calc.bonus_reasons)
              \cap {"Large purchase bonus", "Medium purchase bonus"} = {}

\* C27: no step of a balance query lowers or overwrites a stored balance,
\* also when awards for the same user run between the query's read and its
\* account creation.
C27_QueryNeverLowersBalance ==
    [][\A c \in Callers :
          (pc[c] \in {"bal_get", "bal_set"} /\ pc'[c] # pc[c]) =>
              \A u \in UserIds :
                  /\ PointsOf(users', u) >= PointsOf(users, u)
                  /\ users[u].exists => users'[u] = users[u]]_vars

\* C28: the new_balance that a successful award_points_to_user or
\* spend_points returns is a value that the stored balance of its user held
\* at some moment from the call's increment or decrement on.
C28_NewBalanceWasHeld ==
    \A c \in Callers :
        (Returned(c, {"award_points_to_user", "spend_points"})
             /\ result[c].status = "success") =>
            result[c].balance \subseteq held[c]

\* A get_user_achievements call returns in slot c by this step while slot d
\* keeps the answer of an earlier call for the same user.
LaterAnswer(c, d) ==
    /\ c # d
    /\ frame[c].op = "get_user_achievements"
    /\ pc[c] = "achievements_user"
    /\ pc'[c] = "idle"
    /\ Returned(d, {"get_user_achievements"})
    /\ result[d].status = "success"
    /\ frame[d].user_id = frame[c].user_id

\* C29 as claimed: when a get_user_achievements call returns, its answer
\* holds every achievement that the answer of an earlier call for the same
\* user held, whatever uploads, awards, spends and redemptions came between.
C29_UnlockedStaysUnlocked ==
    [][\A c, d \in Callers :
          LaterAnswer(c, d) =>
              Unlocked(frame[d].achievements)
                  \subseteq Unlocked(frame'[c].achievements)]_vars

\* The balance an achievement asks for; 0 for those given for receipts.
PointsThreshold(achievement) ==
    CASE achievement = "Century Club" -> 100
      [] achievement = "Point Collector" -> 500
      [] OTHER -> 0

\* C29 amended: an achievement given for receipts, once reported, is
\* reported by every later call; Century Club and Point Collector are
\* reported by a later call exactly when the balance it reads is at least
\* 100 and 500, so they are lost once spends or redemptions have brought
\* the balance below the threshold.
C29_UnlockedWhileBalanceHolds ==
    [][\A c, d \in Callers :
          LaterAnswer(c, d) =>
              \A a \in Unlocked(frame[d].achievements) :
                  a \in Unlocked(frame'[c].achievements)
                      <=> PointsOf(users, frame[c].user_id)
                              >= PointsThreshold(a)]_vars

\* C29 witness: after an earlier answer with Century Club and a spend, a
\* later call has answered without it.
C29_Witness ==
    /\ Returned(1, {"get_user_achievements"})
    /\ Returned(2, {"get_user_achievements"})
    /\ "Century Club" \in Unlocked(frame[1].achievements)
    /\ "Century Club" \notin Unlocked(frame[2].achievements)
    /\ \E i \in DOMAIN point_transactions :
          point_transactions[i].type = "spent"

\* C29, kept: a later call has repeated the First Receipt and the Century
\* Club of an earlier answer.
C29_WitnessKept ==
    /\ Returned(1, {"get_user_achievements"})
    /\ Returned(2, {"get_user_achievements"})
    /\ {"First Receipt", "Century Club"}
          \subseteq Unlocked(frame[1].achievements)
                       \cap Unlocked(frame[2].achievements)

\* The sum of the amounts that a list of bonus reasons names.
RECURSIVE NamedAmounts(_)
NamedAmounts(bonus_reasons) ==
    IF bonus_reasons = <<>> THEN 0
    ELSE Head(bonus_reasons)[2] + NamedAmounts(Tail(bonus_reasons))

\* C30: in every successful result of calculate_points_reward the amounts
\* named in bonus_reasons add up to bonus_points, also when the streak
\* bonus comes on top of a size or grocery bonus.
C30_ReasonsAddUpToBonus ==
    (Returned(1, {"calculate_points_reward"}) /\ frame[1].calc.success) =>
        NamedAmounts(frame[1].calc.bonus_reasons) = frame[1].calc.bonus_points

====
